---- MODULE Spec2Model ----
(***************************************************************************)
(* Participation ledger of the volunteer management app.                   *)
(*                                                                         *)
(* The durable store is the Postgres schema of database-schema.sql: the    *)
(* tables users, events and event_participants, the UNIQUE(event_id,       *)
(* volunteer_id) constraint and the row level security policies.  Clients  *)
(* talk to the store directly (the REST client of App.tsx with the public  *)
(* key), so every authenticated account can send any insert, delete or     *)
(* update request; the policies decide what it does.  The screens          *)
(* (EventsScreen, Dashboard, AdminScreen) are the handlers and the         *)
(* aggregations computed from fetched rows.                                *)
(*                                                                         *)
(* A write that matches no row (or whose rows are hidden by a USING        *)
(* policy) affects nothing and returns no error: that is how the REST      *)
(* layer answers UPDATE and DELETE.  An insert that violates a WITH CHECK  *)
(* policy or a constraint returns an error with the SQLSTATE code.  The    *)
(* policies are read as the predicates they state over auth.uid() and the  *)
(* role in the account's users row.                                        *)
(*                                                                         *)
(* No screen sends an update of event_participants; the update requests    *)
(* modelled here are the ones the admin policy admits.  After a successful *)
(* join or leave the screen reloads its list with fetchEvents, which       *)
(* changes nothing in the store: the list is read as the function          *)
(* fetchEvents of the store's state, and the events screen of volunteer v1 *)
(* keeps the list it shows and the requests it has under way.              *)
(*                                                                         *)
(* Accounts come from the auth service, whose trigger handle_new_user      *)
(* writes the users row; the server (service-role key) seeds the demo      *)
(* accounts on /init and answers /stats and /reports.  The profile screen  *)
(* writes the volunteers table.                                            *)
(***************************************************************************)
EXTENDS Integers, FiniteSets, Sequences, Bags, TLC

\* ------------------------------------------------------------------ bounds
MaxTime == 2
MaxHours == 2
MaxEvents == 11
MaxParticipants == 7
MaxClock == 46
MaxNotifications == 2
MaxSubscriptions == 2
MaxFetches == 2

\* --------------------------------------------------------------- constants
EventReportLimit == 10
ActiveWindowDays == 30
FetchLimit == 50
DashboardLimit == 3
RecentEventsLimit == 5
EventIds == {"e1", "e2"}
UserIds == {"v1", "v2", "a1"}
Joiners == {"v1", "v2"}
RestActors == {"v1", "a1"}
Tabs == {"t1", "t2", "t3"}
HourInputs == {-1, MaxHours}
ReportHourInputs == {MaxHours}
Filters == {"all", "upcoming", "joined"}
ClockSteps == {15}
Accounts == {"v1", "a1"}

\* SQLSTATE codes the store answers with
NoError == "ok"
UniqueViolation == "23505"
ForeignKeyViolation == "23503"
RlsViolation == "42501"

VARIABLES users, events, event_participants, now, last, tabs,
          notifications, provider, subscriptions, pushes, callbacks

\* the notification table, the notification provider of one browser, the
\* live subscriptions of its realtime client, the records on their way to
\* the subscription callbacks and the ids the callback has been run for
channelVars == <<notifications, provider, subscriptions, pushes, callbacks>>

VARIABLES authUsers, inits, response, volunteers, profileScreen, screen

\* the accounts of the auth service, the /init invocations under way, the
\* last answer of the server, the volunteers table, the state of the
\* profile screen and the state of the events screen of one browser
appVars == <<authUsers, inits, response, volunteers, profileScreen, screen>>

vars == <<users, events, event_participants, now, last, tabs,
          notifications, provider, subscriptions, pushes, callbacks,
          authUsers, inits, response, volunteers, profileScreen, screen>>

\* ------------------------------------------------------------ bag helpers
BagFilter(B, P(_)) == [r \in {x \in DOMAIN B : P(x)} |-> B[r]]

BagCount(B, P(_)) == BagCardinality(BagFilter(B, P))

RECURSIVE SumHours(_)
SumHours(B) ==
    IF DOMAIN B = {} THEN 0
    ELSE LET r == CHOOSE x \in DOMAIN B : TRUE
         IN  r.hours * B[r] + SumHours([x \in DOMAIN B \ {r} |-> B[x]])

SetMax(S) == CHOOSE m \in S : \A x \in S : x <= m

\* ------------------------------------------------------------------ store
TabUser(t) == IF t = "t3" THEN "v2" ELSE "v1"

IsAdmin(uid) == \E u \in users : u.id = uid /\ u.role = "admin"

NewParticipant(eventId, volunteerId) ==
    [event_id |-> eventId, volunteer_id |-> volunteerId,
     status |-> "joined", hours |-> 0, created_at |-> now]

SamePair(r, eventId, volunteerId) ==
    r.event_id = eventId /\ r.volunteer_id = volunteerId

InsertPolicy_AnyUser(uid, row) == TRUE

InsertPolicy(uid, row) == uid = row.volunteer_id \/ IsAdmin(uid)

DeletePolicy(uid, row) == uid = row.volunteer_id \/ IsAdmin(uid)

UpdatePolicy_OwnerToo(uid, row) == uid = row.volunteer_id \/ IsAdmin(uid)

UpdatePolicy(uid, row) == IsAdmin(uid)

UniqueEventVolunteer_NoIndex(tbl, row) == TRUE

UniqueEventVolunteer(tbl, row) ==
    ~ \E r \in BagToSet(tbl) : SamePair(r, row.event_id, row.volunteer_id)

\* an upsert on (event_id, volunteer_id) instead of a plain insert
InsertParticipant_Upsert(tbl, uid, row) ==
    LET other(r) == ~ SamePair(r, row.event_id, row.volunteer_id)
    IN  IF ~ InsertPolicy(uid, row)
          THEN [tbl |-> tbl, error |-> RlsViolation, affected |-> 0]
        ELSE [tbl |-> BagFilter(tbl, other) (+) SetToBag({row}),
              error |-> NoError, affected |-> 1]

InsertParticipant(tbl, uid, row) ==
    IF ~ InsertPolicy(uid, row)
      THEN [tbl |-> tbl, error |-> RlsViolation, affected |-> 0]
    ELSE IF ~ UniqueEventVolunteer(tbl, row)
      THEN [tbl |-> tbl, error |-> UniqueViolation, affected |-> 0]
    ELSE IF \/ ~ \E e \in events : e.id = row.event_id
            \/ ~ \E u \in users : u.id = row.volunteer_id
      THEN [tbl |-> tbl, error |-> ForeignKeyViolation, affected |-> 0]
    ELSE [tbl |-> tbl (+) SetToBag({row}), error |-> NoError, affected |-> 1]

\* the delete without its event_id filter
DeleteParticipants_NoEventFilter(tbl, uid, eventId, volunteerId) ==
    LET hit(r) == r.volunteer_id = volunteerId /\ DeletePolicy(uid, r)
        keep(r) == ~ hit(r)
    IN  [tbl |-> BagFilter(tbl, keep), error |-> NoError,
         affected |-> BagCount(tbl, hit)]

\* the delete restricted to rows still in status joined
DeleteParticipants_JoinedOnly(tbl, uid, eventId, volunteerId) ==
    LET hit(r) == /\ SamePair(r, eventId, volunteerId)
                  /\ r.status = "joined"
                  /\ DeletePolicy(uid, r)
        keep(r) == ~ hit(r)
    IN  [tbl |-> BagFilter(tbl, keep), error |-> NoError,
         affected |-> BagCount(tbl, hit)]

DeleteParticipants(tbl, uid, eventId, volunteerId) ==
    LET hit(r) == SamePair(r, eventId, volunteerId) /\ DeletePolicy(uid, r)
        keep(r) == ~ hit(r)
    IN  [tbl |-> BagFilter(tbl, keep), error |-> NoError,
         affected |-> BagCount(tbl, hit)]

ApplyPatch(r, patch) ==
    [f \in DOMAIN r |-> IF f \in DOMAIN patch THEN patch[f] ELSE r[f]]

MatchStatus(r, match) == match = "any" \/ r.status = match

UpdateParticipants(tbl, uid, eventId, volunteerId, req) ==
    LET patch == req.patch
        hit(r) == /\ SamePair(r, eventId, volunteerId)
                  /\ MatchStatus(r, req.match)
                  /\ UpdatePolicy(uid, r)
        keep(r) == ~ hit(r)
        hits == BagFilter(tbl, hit)
        RECURSIVE Patched(_)
        Patched(B) ==
            IF DOMAIN B = {} THEN EmptyBag
            ELSE LET r == CHOOSE x \in DOMAIN B : TRUE
                     one == [x \in {ApplyPatch(r, patch)} |-> B[r]]
                 IN  one (+) Patched([x \in DOMAIN B \ {r} |-> B[x]])
    IN  [tbl |-> BagFilter(tbl, keep) (+) Patched(hits), error |-> NoError,
         affected |-> BagCardinality(hits)]

\* The update requests clients send: recording attendance with hours on a
\* joined row, and cancelling a participation.
RecordAttendance(h) ==
    [match |-> "joined", patch |-> [status |-> "attended", hours |-> h]]

Cancel(match) == [match |-> match, patch |-> [status |-> "cancelled"]]

UpdateRequests == {RecordAttendance(h) : h \in HourInputs} \cup {Cancel("joined")}

ReportUpdateRequests ==
    {RecordAttendance(h) : h \in ReportHourInputs} \cup {Cancel("any")}

\* What the last step was and what the client saw of it; affected is the
\* number of rows the store touched, event_id the id of the event or of
\* the notification the request named.
Op(name, uid, eventId, error, affected, toast) ==
    [op |-> name, uid |-> uid, event_id |-> eventId,
     error |-> error, affected |-> affected, toast |-> toast]

IdleTab == [pc |-> "idle", event_id |-> "none", error |-> "none", toast |-> "none"]

\* --------------------------------------------------------- event catalog
\* No screen in the sources writes the events table (the create dialog is
\* imported, the button is shown to admins only); the requests below are
\* the ones the REST client lets every account send, decided by the events
\* policies.  A new event gets a fresh id from the id default.
NewEvent(id, date, creator) ==
    [id |-> id, title |-> "event", date |-> date, location |-> "hall",
     created_by |-> creator]

EventId(k) == "e" \o ToString(k)

\* events created after the initial two; their number gives the next id
CreatedEvents == {e \in events : e.id \notin EventIds}

EventInsertPolicy_AnyUser(uid, row) == TRUE

EventInsertPolicy(uid, row) == IsAdmin(uid)

EventUpdatePolicy(uid, row) == uid = row.created_by \/ IsAdmin(uid)

EventDeletePolicy(uid, row) == uid = row.created_by \/ IsAdmin(uid)

InsertEvent(evts, uid, row) ==
    IF ~ EventInsertPolicy(uid, row)
      THEN [events |-> evts, error |-> RlsViolation, affected |-> 0]
    ELSE IF ~ \E u \in users : u.id = row.created_by
      THEN [events |-> evts, error |-> ForeignKeyViolation, affected |-> 0]
    ELSE [events |-> evts \cup {row}, error |-> NoError, affected |-> 1]

UpdateEvents(evts, uid, eventId, patch) ==
    LET hits == {e \in evts : e.id = eventId /\ EventUpdatePolicy(uid, e)}
    IN  [events |-> (evts \ hits) \cup {ApplyPatch(e, patch) : e \in hits},
         error |-> NoError, affected |-> Cardinality(hits)]

\* the delete that leaves the participation rows of the event behind
DeleteEvents_NoCascade(evts, parts, uid, eventId) ==
    LET hits == {e \in evts : e.id = eventId /\ EventDeletePolicy(uid, e)}
    IN  [events |-> evts \ hits, event_participants |-> parts,
         error |-> NoError, affected |-> Cardinality(hits)]

\* event_participants.event_id is ON DELETE CASCADE: the rows of a deleted
\* event go with it, whoever they belong to.
DeleteEvents(evts, parts, uid, eventId) ==
    LET hits == {e \in evts : e.id = eventId /\ EventDeletePolicy(uid, e)}
        kept(r) == r.event_id \notin {e.id : e \in hits}
    IN  [events |-> evts \ hits, event_participants |-> BagFilter(parts, kept),
         error |-> NoError, affected |-> Cardinality(hits)]

Rename == [title |-> "renamed"]

\* ------------------------------------------------------------ aggregation
\* The rows the store embeds under an event; with the 'joined' filter the
\* embedded rows are filtered, the events are not (left join).
EmbeddedParticipants(eventId, user, filter) ==
    LET ofEvent(r) == r.event_id = eventId
        mine(r) == /\ r.event_id = eventId
                   /\ r.volunteer_id = user
                   /\ r.status = "joined"
    IN  IF filter = "joined" THEN BagFilter(event_participants, mine)
        ELSE BagFilter(event_participants, ofEvent)

ListedEvents(filter) ==
    IF filter = "upcoming" THEN {e \in events : e.date >= now} ELSE events

fetchEvents(user, filter) ==
    LET isJoined(r) == r.volunteer_id = user /\ r.status = "joined"
    IN  [id \in {e.id : e \in ListedEvents(filter)} |->
            LET embedded == EmbeddedParticipants(id, user, filter)
            IN  [participant_count |-> BagCardinality(embedded),
                 is_joined |-> \E r \in BagToSet(embedded) : isJoined(r)]]

LatestEvents(n) ==
    {e \in events : Cardinality({f \in events : f.date > e.date}) < n}

fetchEventReports ==
    [id \in {e.id : e \in LatestEvents(EventReportLimit)} |->
        LET ofEvent(r) == r.event_id = id
            attended(r) == r.event_id = id /\ r.status = "attended"
            event == CHOOSE e \in events : e.id = id
        IN  [title |-> event.title, date |-> event.date,
             location |-> event.location,
             participant_count |-> BagCount(event_participants, ofEvent),
             attended_count |-> BagCount(event_participants, attended)]]

\* an event nobody joined shown as fully attended
AttendanceRate_EmptyIsFull(attended, participants) ==
    IF participants > 0
      THEN (200 * attended + participants) \div (2 * participants)
      ELSE 100

\* Math.round((attended_count / participant_count) * 100) behind its
\* participant_count > 0 guard; Math.round takes a half upwards.
AttendanceRate(attended, participants) ==
    IF participants > 0
      THEN (200 * attended + participants) \div (2 * participants)
      ELSE 0

\* the statistic that counts recent rows instead of distinct volunteers
ActiveVolunteers_PerRow ==
    LET recent(r) == r.created_at >= now - ActiveWindowDays
    IN  BagCount(event_participants, recent)

\* new Set(activeVolunteersData.map(p => p.volunteer_id)).size over the
\* rows with created_at >= Date.now() - 30 days; the clock counts days.
ActiveVolunteers ==
    LET recent(r) == r.created_at >= now - ActiveWindowDays
        activeVolunteersData == BagFilter(event_participants, recent)
    IN  Cardinality({r.volunteer_id : r \in BagToSet(activeVolunteersData)})

fetchStats ==
    [totalVolunteers |-> Cardinality({u \in users : u.role = "volunteer"}),
     totalEvents |-> Cardinality(events),
     totalParticipations |-> BagCardinality(event_participants),
     activeVolunteers |-> ActiveVolunteers]

NextUpcomingEvents(n) ==
    LET upcoming == {e \in events : e.date >= now}
    IN  {e \in upcoming : Cardinality({f \in upcoming : f.date < e.date}) < n}

fetchDashboardData ==
    [id \in {e.id : e \in NextUpcomingEvents(DashboardLimit)} |->
        LET ofEvent(r) == r.event_id = id
        IN  [participant_count |-> BagCount(event_participants, ofEvent)]]

fetchVolunteerReports ==
    [id \in {u.id : u \in {x \in users : x.role = "volunteer"}} |->
        LET ofVolunteer(r) == r.volunteer_id = id
            participations == BagFilter(event_participants, ofVolunteer)
            lastActivity ==
                IF BagCardinality(participations) > 0
                  THEN SetMax({r.created_at : r \in BagToSet(participations)})
                  ELSE 0
        IN  [total_events |-> BagCardinality(participations),
             total_hours |-> SumHours(participations),
             last_activity |-> IF lastActivity > 0 THEN <<lastActivity>>
                               ELSE <<>>]]

\* ----------------------------------------------------------- notifications
\* The provider sits above the screens and below the auth provider, so it
\* lives across sign-out and sign-in: user is useAuth().user, notifications
\* the list it keeps, fetching the accounts whose fetchNotifications request
\* has not come back yet.
SignedOutProvider ==
    [user |-> "none", notifications |-> <<>>, fetching |-> {}, marking |-> 0]

NotificationId(k) == "n" \o ToString(k)

NotificationIndex(id) == CHOOSE k \in 1..(MaxNotifications + 1) : NotificationId(k) = id

NewNotification(id, recipient) ==
    [id |-> id, user_id |-> recipient, message |-> "hello", type |-> "general",
     read_status |-> FALSE, created_at |-> now]

NotificationInsertPolicy(uid, row) == IsAdmin(uid)

NotificationSelectPolicy(uid, row) == uid = row.user_id

NotificationUpdatePolicy(uid, row) == uid = row.user_id

InsertNotification(tbl, uid, row) ==
    IF ~ NotificationInsertPolicy(uid, row)
      THEN [tbl |-> tbl, error |-> RlsViolation, affected |-> 0]
    ELSE IF ~ \E u \in users : u.id = row.user_id
      THEN [tbl |-> tbl, error |-> ForeignKeyViolation, affected |-> 0]
    ELSE [tbl |-> tbl \cup {row}, error |-> NoError, affected |-> 1]

\* The filters of an update request: eq('id', ...), eq('user_id', ...),
\* eq('read_status', false); "any" stands for a filter that is not set.
MatchNotification(r, req) ==
    /\ req.id \in {"any", r.id}
    /\ req.user_id \in {"any", r.user_id}
    /\ req.unread_only => ~ r.read_status

\* UPDATE under "Users can update their own notifications": the USING
\* clause hides the rows of others, and with no WITH CHECK clause it is
\* also the check on the new rows.
UpdateNotifications(tbl, uid, req) ==
    LET hits == {r \in tbl : MatchNotification(r, req)
                                /\ NotificationUpdatePolicy(uid, r)}
        new == {ApplyPatch(r, req.patch) : r \in hits}
    IN  IF \E r \in new : ~ NotificationUpdatePolicy(uid, r)
          THEN [tbl |-> tbl, error |-> RlsViolation, affected |-> 0]
        ELSE [tbl |-> (tbl \ hits) \cup new, error |-> NoError,
              affected |-> Cardinality(hits)]

MarkReadRequest(notificationId) ==
    [id |-> notificationId, user_id |-> "any", unread_only |-> FALSE,
     patch |-> [read_status |-> TRUE]]

MarkAllReadRequest(userId) ==
    [id |-> "any", user_id |-> userId, unread_only |-> TRUE,
     patch |-> [read_status |-> TRUE]]

\* Updates no screen sends but the update policy lets the client send:
\* new content, the read flag taken back, another recipient.
EditRequest(notificationId, patch) ==
    [id |-> notificationId, user_id |-> "any", unread_only |-> FALSE,
     patch |-> patch]

NotificationPatches ==
    {[message |-> "edited", type |-> "alert"], [read_status |-> FALSE]}
        \cup {[user_id |-> u] : u \in Accounts}

\* fetchNotifications: the rows of the account, newest first (the later
\* id first among rows of one instant), at most FetchLimit of them.
Newer(a, b) ==
    \/ a.created_at > b.created_at
    \/ a.created_at = b.created_at
          /\ NotificationIndex(a.id) > NotificationIndex(b.id)

RECURSIVE NewestFirst(_)
NewestFirst(rows) ==
    IF rows = {} THEN <<>>
    ELSE LET first == CHOOSE r \in rows : \A o \in rows \ {r} : Newer(r, o)
         IN  <<first>> \o NewestFirst(rows \ {first})

FetchedNotifications(userId) ==
    LET mine == {r \in notifications :
                    r.user_id = userId /\ NotificationSelectPolicy(userId, r)}
        sorted == NewestFirst(mine)
    IN  SubSeq(sorted, 1, IF Len(sorted) < FetchLimit THEN Len(sorted)
                          ELSE FetchLimit)

\* The realtime service hands a committed row to every live subscription
\* whose filter user_id=eq.<id> matches it.
Published(row) ==
    IF row.user_id \in DOMAIN subscriptions
      THEN [p \in {[to |-> row.user_id, new |-> row]} |->
                subscriptions[row.user_id]]
      ELSE EmptyBag

\* supabase.channel('notifications')...subscribe() while a channel of that
\* name is already open: the client library of the build either opens a
\* further channel or hands back the open one.
SubscribeOutcomes ==
    IF subscriptions = EmptyBag THEN {"opened"} ELSE {"opened", "reused"}

Subscribed(subs, userId, outcome) ==
    IF outcome = "opened" THEN subs (+) SetToBag({userId}) ELSE subs

RECURSIVE MarkLocal(_, _)
MarkLocal(list, ids) ==
    IF list = <<>> THEN <<>>
    ELSE <<IF Head(list).id \in ids
             THEN [Head(list) EXCEPT !.read_status = TRUE]
             ELSE Head(list)>> \o MarkLocal(Tail(list), ids)

LocalIds(list) == {list[i].id : i \in 1..Len(list)}

\* ---------------------------------------------------------------- accounts
\* An account is a row of auth.users (id, email, the role of its sign-up
\* metadata) and the users row made from it.
AuthUser(id, email, name, role) ==
    [id |-> id, email |-> email, name |-> name, role |-> role]

NewUser(id, email, name, role) ==
    [id |-> id, email |-> email, name |-> name, role |-> role]

Roles == {"volunteer", "admin"}

RegisteredAccounts ==
    {AuthUser("v1", "v1@mail", "v1", "volunteer"),
     AuthUser("v2", "v2@mail", "v2", "volunteer"),
     AuthUser("a1", "a1@mail", "a1", "admin")}

\* the two accounts createDemoUsers seeds, in its order
DemoUsers ==
    <<[email |-> "admin@srcs.org", name |-> "Admin User", role |-> "admin"],
      [email |-> "volunteer@srcs.org", name |-> "Demo Volunteer",
       role |-> "volunteer"]>>

\* the id the auth service hands to a new account: one per email
AccountId(email) ==
    IF email = "admin@srcs.org" THEN "da"
    ELSE IF email = "volunteer@srcs.org" THEN "dv"
    ELSE "s1"

SignUpEmails == {"s1@mail"}

\* the role of the sign-up metadata; "none" is metadata without a role
SignUpRoles == {"none", "admin"}

\* the trigger that gives every new account the default role
handle_new_user_DefaultRole(tbl, new) ==
    tbl \cup {NewUser(new.id, new.email, new.name, "volunteer")}

\* handle_new_user, fired by the insert into auth.users
handle_new_user(tbl, new) ==
    tbl \cup {NewUser(new.id, new.email, new.name,
                      IF new.role = "none" THEN "volunteer" ELSE new.role)}

\* The auth service creates an account (sign-up and admin.createUser): the
\* email is unique, and the trigger runs in the same transaction.
CreateUser(auth, tbl, email, name, role) ==
    IF \E a \in auth : a.email = email
      THEN [authUsers |-> auth, users |-> tbl, error |-> "email_exists",
            user |-> "none"]
    ELSE IF role \notin Roles \cup {"none"}
      THEN [authUsers |-> auth, users |-> tbl, error |-> "23514",
            user |-> "none"]
    ELSE LET new == AuthUser(AccountId(email), email, name, role)
         IN  [authUsers |-> auth \cup {new},
              users |-> handle_new_user(tbl, new), error |-> NoError,
              user |-> new.id]

\* an insert into users with the service-role key, which bypasses the
\* policies: the primary key and the reference to auth.users remain
InsertUser(auth, tbl, row) ==
    IF \E u \in tbl : u.id = row.id
      THEN [users |-> tbl, error |-> UniqueViolation, affected |-> 0]
    ELSE IF ~ \E a \in auth : a.id = row.id
      THEN [users |-> tbl, error |-> ForeignKeyViolation, affected |-> 0]
    ELSE [users |-> tbl \cup {row}, error |-> NoError, affected |-> 1]

\* an update of users that lets the owner write every column
UserUpdatePolicy(uid, row) == uid = row.id

\* PATCH users?id=eq.<id> by an account: the rows its UPDATE policy shows
\* are patched in any column, as long as the role stays one of the two.
UpdateUsers(tbl, uid, id, patch) ==
    LET hits == {u \in tbl : u.id = id /\ UserUpdatePolicy(uid, u)}
        news == {ApplyPatch(u, patch) : u \in hits}
    IN  IF \E n \in news : n.role \notin Roles
          THEN [users |-> tbl, error |-> "23514", affected |-> 0]
        ELSE IF \E n \in news : ~ UserUpdatePolicy(uid, n)
          THEN [users |-> tbl, error |-> RlsViolation, affected |-> 0]
        ELSE [users |-> (tbl \ hits) \cup news, error |-> NoError,
              affected |-> Cardinality(hits)]

UserPatches == {[name |-> "renamed"], [role |-> "admin"]}

\* .single(): the row when the filter matches exactly one, else no data
Single(rows) == IF Cardinality(rows) = 1 THEN CHOOSE r \in rows : TRUE
                ELSE [id |-> "none", role |-> "none"]

\* ------------------------------------------------------------------ server
InitCalls == {"i1", "i2"}

IdleInit == [pc |-> "idle", demo |-> 1, replied |-> FALSE]

NoResponse == [op |-> "none", status |-> 0, body |-> "none"]

Tokens == {"none", "v1", "a1", "s1"}

ReportTypes == {"events", "volunteers", "hours"}

\* supabase.auth.getUser(token): the account of a session token; a missing
\* header and a token no session has give no user
getUser(token) ==
    IF \E a \in authUsers : a.id = token THEN token ELSE "none"

\* the role check that lets every signed-in account through
AdminAccess_AnyAccount(userId) == TRUE

\* userProfile?.role === 'admin' of the account's users row
AdminAccess(userId) ==
    Single({u \in users : u.id = userId}).role = "admin"

EventIndex(id) == CHOOSE k \in 1..(MaxEvents + 1) : EventId(k) = id

\* the latest events, by the order their ids were handed out
RecentEvents(n) ==
    {e \in events :
        Cardinality({o \in events :
                        EventIndex(o.id) > EventIndex(e.id)}) < n}

StatsPayload ==
    [totalVolunteers |-> Cardinality({u \in users : u.role = "volunteer"}),
     totalEvents |-> Cardinality(events),
     totalParticipations |-> BagCardinality(event_participants),
     recentEvents |->
        [id \in {e.id : e \in RecentEvents(RecentEventsLimit)} |->
            LET ofEvent(r) == r.event_id = id
            IN  BagCount(event_participants, ofEvent)]]

ReportPayload(type) ==
    IF type = "events"
      THEN [events |->
              [id \in {e.id : e \in events} |->
                  {[volunteer_id |-> r.volunteer_id, status |-> r.status] :
                      r \in {x \in BagToSet(event_participants) :
                                x.event_id = id}}]]
      ELSE [volunteers |->
              [id \in {u.id : u \in {x \in users : x.role = "volunteer"}} |->
                  LET ofVolunteer(r) == r.volunteer_id = id
                  IN  BagFilter(event_participants, ofVolunteer)]]

\* the answer of GET /stats and GET /reports/:type
Answer(token, payload) ==
    IF getUser(token) = "none"
      THEN [status |-> 401, body |-> [error |-> "Unauthorized"]]
    ELSE IF ~ AdminAccess(getUser(token))
      THEN [status |-> 403, body |-> [error |-> "Admin access required"]]
    ELSE [status |-> 200, body |-> payload]

\* ---------------------------------------------------------- profile screen
\* a row of volunteers; the form fields are represented by the phone
NewVolunteer(id, userId, phone) ==
    [id |-> id, user_id |-> userId, name |-> userId, phone |-> phone]

VolunteerId(k) == "p" \o ToString(k)

Phones == {"0123", "0456"}

VolunteerInsertPolicy(uid, row) == uid = row.user_id

VolunteerUpdatePolicy(uid, row) == uid = row.user_id

UniqueVolunteerUser(tbl, row) == ~ \E r \in tbl : r.user_id = row.user_id

InsertVolunteer(tbl, uid, row) ==
    IF ~ VolunteerInsertPolicy(uid, row)
      THEN [tbl |-> tbl, error |-> RlsViolation, affected |-> 0]
    ELSE IF ~ UniqueVolunteerUser(tbl, row)
      THEN [tbl |-> tbl, error |-> UniqueViolation, affected |-> 0]
    ELSE IF ~ \E u \in users : u.id = row.user_id
      THEN [tbl |-> tbl, error |-> ForeignKeyViolation, affected |-> 0]
    ELSE [tbl |-> tbl \cup {row}, error |-> NoError, affected |-> 1]

\* update(profileData).eq('id', id)
UpdateVolunteers(tbl, uid, id, patch) ==
    LET hits == {r \in tbl : r.id = id /\ VolunteerUpdatePolicy(uid, r)}
    IN  [tbl |-> (tbl \ hits) \cup {ApplyPatch(r, patch) : r \in hits},
         error |-> NoError, affected |-> Cardinality(hits)]

\* ProfileScreen of volunteer v1 after mounting: no profile, and the
\* effect has sent its fetchProfile request.
ProfileUser == "v1"

NoProfile == [id |-> "none", user_id |-> "none", name |-> "none",
              phone |-> "none"]

MountedProfileScreen == [profile |-> NoProfile, fetching |-> 1]

FetchOutcomes == {"data", "error"}

\* ----------------------------------------------------------- events screen
\* EventsScreen of the first tab after mounting: the filter starts as
\* 'upcoming' and the effect has sent its fetchEvents request.
ScreenUser == "v1"

MountedEventsScreen ==
    [filter |-> "upcoming", events |-> [filter |-> "none", rows |-> <<>>],
     inflight |-> {"upcoming"}]

\* the screen after a handler of its user that calls fetchEvents() when its
\* write succeeded: a request with the filter selected then is under way
Refetched(scr, user, error) ==
    IF user = ScreenUser /\ error = NoError
      THEN [scr EXCEPT !.inflight = @ \cup {scr.filter}]
      ELSE scr

\* ------------------------------------------------------------------- Init
Init ==
    /\ users = {NewUser(a.id, a.email, a.name, a.role) :
                    a \in RegisteredAccounts}
    /\ events = {NewEvent("e1", 0, "a1"), NewEvent("e2", 2, "a1")}
    /\ event_participants = EmptyBag
    /\ now = 1
    /\ last = Op("init", "none", "none", NoError, 0, "none")
    /\ tabs = [t \in Tabs |-> IdleTab]
    /\ notifications = {}
    /\ provider = SignedOutProvider
    /\ subscriptions = EmptyBag
    /\ pushes = EmptyBag
    /\ callbacks = EmptyBag
    /\ authUsers = RegisteredAccounts
    /\ inits = [i \in InitCalls |-> IdleInit]
    /\ response = NoResponse
    /\ volunteers = {}
    /\ profileScreen = MountedProfileScreen
    /\ screen = MountedEventsScreen

\* ---------------------------------------------------------------- actions
\* The store executes one statement atomically, so a handler with a single
\* awaited request is one step; JoinSend, JoinExecute and JoinReturn below
\* split it for the interleaving of concurrent requests.
handleJoinEvent(user, eventId) ==
    LET res == InsertParticipant(event_participants, user,
                                 NewParticipant(eventId, user))
        toast == IF res.error # NoError THEN "Failed to join event"
                 ELSE "Successfully joined the event!"
    IN  /\ event_participants' = res.tbl
        /\ last' = Op("handleJoinEvent", user, eventId, res.error, res.affected, toast)
        /\ UNCHANGED <<users, events, now, tabs>>
        /\ UNCHANGED channelVars
        /\ screen' = Refetched(screen, user, res.error)
        /\ UNCHANGED <<authUsers, inits, response, volunteers, profileScreen>>

handleLeaveEvent(user, eventId) ==
    LET res == DeleteParticipants(event_participants, user, eventId, user)
        toast == IF res.error # NoError THEN "Failed to leave event"
                 ELSE "Successfully left the event"
    IN  /\ event_participants' = res.tbl
        /\ last' = Op("handleLeaveEvent", user, eventId, res.error, res.affected, toast)
        /\ UNCHANGED <<users, events, now, tabs>>
        /\ UNCHANGED channelVars
        /\ screen' = Refetched(screen, user, res.error)
        /\ UNCHANGED <<authUsers, inits, response, volunteers, profileScreen>>

RestInsert(uid, eventId, volunteerId) ==
    LET res == InsertParticipant(event_participants, uid,
                                 NewParticipant(eventId, volunteerId))
    IN  /\ event_participants' = res.tbl
        /\ last' = Op("insert", uid, eventId, res.error, res.affected, "none")
        /\ UNCHANGED <<users, events, now, tabs>>
        /\ UNCHANGED channelVars
        /\ UNCHANGED appVars

RestDelete(uid, eventId, volunteerId) ==
    LET res == DeleteParticipants(event_participants, uid, eventId, volunteerId)
    IN  /\ event_participants' = res.tbl
        /\ last' = Op("delete", uid, eventId, res.error, res.affected, "none")
        /\ UNCHANGED <<users, events, now, tabs>>
        /\ UNCHANGED channelVars
        /\ UNCHANGED appVars

RestUpdate(uid, eventId, volunteerId, req) ==
    LET res == UpdateParticipants(event_participants, uid, eventId,
                                  volunteerId, req)
    IN  /\ event_participants' = res.tbl
        /\ last' = Op("update", uid, eventId, res.error, res.affected, "none")
        /\ UNCHANGED <<users, events, now, tabs>>
        /\ UNCHANGED channelVars
        /\ UNCHANGED appVars

Tick ==
    /\ now < MaxTime
    /\ now' = now + 1
    /\ last' = Op("tick", "none", "none", NoError, 0, "none")
    /\ UNCHANGED <<users, events, event_participants, tabs>>
    /\ UNCHANGED channelVars
    /\ UNCHANGED appVars

\* Days pass between two requests.
Advance(days) ==
    /\ now + days <= MaxClock
    /\ now' = now + days
    /\ last' = Op("advance", "none", "none", NoError, 0, "none")
    /\ UNCHANGED <<users, events, event_participants, tabs>>
    /\ UNCHANGED channelVars
    /\ UNCHANGED appVars

\* handleJoinEvent as the three steps a browser tab takes: the request is
\* sent, the store executes the insert, the awaited result comes back.
JoinSend(t, eventId) ==
    /\ tabs[t].pc = "idle"
    /\ tabs' = [tabs EXCEPT ![t] = [IdleTab EXCEPT !.pc = "sent",
                                                   !.event_id = eventId]]
    /\ last' = Op("JoinSend", TabUser(t), eventId, NoError, 0, "none")
    /\ UNCHANGED <<users, events, event_participants, now>>
    /\ UNCHANGED channelVars
    /\ UNCHANGED appVars

JoinExecute(t) ==
    /\ tabs[t].pc = "sent"
    /\ LET res == InsertParticipant(event_participants, TabUser(t),
                      NewParticipant(tabs[t].event_id, TabUser(t)))
       IN  /\ event_participants' = res.tbl
           /\ tabs' = [tabs EXCEPT ![t].pc = "replied", ![t].error = res.error]
           /\ last' = Op("JoinExecute", TabUser(t), tabs[t].event_id,
                         res.error, res.affected, "none")
    /\ UNCHANGED <<users, events, now>>
    /\ UNCHANGED channelVars
    /\ UNCHANGED appVars

JoinReturn(t) ==
    /\ tabs[t].pc = "replied"
    /\ LET toast == IF tabs[t].error # NoError THEN "Failed to join event"
                    ELSE "Successfully joined the event!"
       IN  /\ tabs' = [tabs EXCEPT ![t].pc = "done", ![t].toast = toast]
           /\ last' = Op("JoinReturn", TabUser(t), tabs[t].event_id,
                         tabs[t].error, 0, toast)
    /\ UNCHANGED <<users, events, event_participants, now>>
    /\ UNCHANGED channelVars
    /\ UNCHANGED appVars

\* Direct requests on the events table.
RestInsertEvent(uid) ==
    /\ Cardinality(CreatedEvents) + 3 <= MaxEvents
    /\ LET k == Cardinality(CreatedEvents) + 3
           res == InsertEvent(events, uid, NewEvent(EventId(k), k, uid))
       IN  /\ events' = res.events
           /\ last' = Op("insertEvent", uid, EventId(k), res.error,
                         res.affected, "none")
    /\ UNCHANGED <<users, event_participants, now, tabs>>
    /\ UNCHANGED channelVars
    /\ UNCHANGED appVars

RestUpdateEvent(uid, eventId, patch) ==
    LET res == UpdateEvents(events, uid, eventId, patch)
    IN  /\ events' = res.events
        /\ last' = Op("updateEvent", uid, eventId, res.error, res.affected, "none")
        /\ UNCHANGED <<users, event_participants, now, tabs>>
        /\ UNCHANGED channelVars
        /\ UNCHANGED appVars

RestDeleteEvent(uid, eventId) ==
    LET res == DeleteEvents(events, event_participants, uid, eventId)
    IN  /\ events' = res.events
        /\ event_participants' = res.event_participants
        /\ last' = Op("deleteEvent", uid, eventId, res.error, res.affected, "none")
        /\ UNCHANGED <<users, now, tabs>>
        /\ UNCHANGED channelVars
        /\ UNCHANGED appVars

\* ------------------------------------------------- notification actions
\* The auth provider sets a user: the effect of the notification provider
\* runs, starts fetchNotifications and subscribes.
SignIn(u) ==
    /\ provider.user = "none"
    /\ BagCardinality(subscriptions) < MaxSubscriptions
    /\ \E outcome \in SubscribeOutcomes :
           subscriptions' = Subscribed(subscriptions, u, outcome)
    /\ provider' = [provider EXCEPT !.user = u, !.fetching = @ \cup {u}]
    /\ last' = Op("SignIn", u, "none", NoError, 0, "none")
    /\ UNCHANGED <<users, events, event_participants, now, tabs>>
    /\ UNCHANGED appVars
    /\ UNCHANGED <<notifications, pushes, callbacks>>

\* The user becomes null: the effect runs and does nothing; it has handed
\* no cleanup to React, so the subscription and the list stay.
SignOut ==
    /\ provider.user # "none"
    /\ provider' = [provider EXCEPT !.user = "none"]
    /\ last' = Op("SignOut", provider.user, "none", NoError, 0, "none")
    /\ UNCHANGED <<users, events, event_participants, now, tabs>>
    /\ UNCHANGED appVars
    /\ UNCHANGED <<notifications, subscriptions, pushes, callbacks>>

\* The answer of a fetchNotifications request replaces the list.
FetchReturn(u) ==
    /\ u \in provider.fetching
    /\ provider' = [provider EXCEPT !.notifications = FetchedNotifications(u),
                                    !.fetching = @ \ {u}]
    /\ last' = Op("fetchNotifications", u, "none", NoError, 0, "none")
    /\ UNCHANGED <<users, events, event_participants, now, tabs>>
    /\ UNCHANGED appVars
    /\ UNCHANGED <<notifications, subscriptions, pushes, callbacks>>

RestInsertNotification(uid, recipient) ==
    /\ Cardinality(notifications) < MaxNotifications
    /\ LET id == NotificationId(Cardinality(notifications) + 1)
           row == NewNotification(id, recipient)
           res == InsertNotification(notifications, uid, row)
       IN  /\ notifications' = res.tbl
           /\ pushes' = IF res.error = NoError THEN pushes (+) Published(row)
                         ELSE pushes
           /\ last' = Op("insertNotification", uid, id, res.error,
                         res.affected, "none")
    /\ UNCHANGED <<users, events, event_participants, now, tabs>>
    /\ UNCHANGED appVars
    /\ UNCHANGED <<provider, subscriptions, callbacks>>

\* addNotification inserts a notification addressed to the user itself.
addNotification ==
    /\ provider.user # "none"
    /\ Cardinality(notifications) < MaxNotifications
    /\ LET id == NotificationId(Cardinality(notifications) + 1)
           row == NewNotification(id, provider.user)
           res == InsertNotification(notifications, provider.user, row)
       IN  /\ notifications' = res.tbl
           /\ pushes' = IF res.error = NoError THEN pushes (+) Published(row)
                         ELSE pushes
           /\ last' = Op("addNotification", provider.user, id, res.error,
                         res.affected, "none")
    /\ UNCHANGED <<users, events, event_participants, now, tabs>>
    /\ UNCHANGED appVars
    /\ UNCHANGED <<provider, subscriptions, callbacks>>

\* The subscription callback: the record goes to the head of the list and
\* is shown as a toast.
Deliver(p) ==
    /\ BagIn(p, pushes)
    /\ pushes' = pushes (-) SetToBag({p})
    /\ callbacks' = callbacks (+) SetToBag({p.new.id})
    /\ provider' = [provider EXCEPT !.notifications = <<p.new>> \o @]
    /\ last' = Op("callback", p.to, p.new.id, NoError, 0, p.new.message)
    /\ UNCHANGED <<users, events, event_participants, now, tabs>>
    /\ UNCHANGED appVars
    /\ UNCHANGED <<notifications, subscriptions>>

\* markAsRead for a notification of the list the provider shows.
markAsRead(notificationId) ==
    /\ provider.user # "none"
    /\ notificationId \in LocalIds(provider.notifications)
    /\ LET res == UpdateNotifications(notifications, provider.user,
                                      MarkReadRequest(notificationId))
       IN  /\ notifications' = res.tbl
           /\ provider' =
                  IF res.error = NoError
                    THEN [provider EXCEPT !.notifications =
                              MarkLocal(@, {notificationId})]
                    ELSE provider
           /\ last' = Op("markAsRead", provider.user, notificationId,
                         res.error, res.affected, "none")
    /\ UNCHANGED <<users, events, event_participants, now, tabs>>
    /\ UNCHANGED appVars
    /\ UNCHANGED <<subscriptions, pushes, callbacks>>

markAllAsRead ==
    /\ provider.user # "none"
    /\ LET res == UpdateNotifications(notifications, provider.user,
                                      MarkAllReadRequest(provider.user))
       IN  /\ notifications' = res.tbl
           /\ provider' =
                  IF res.error = NoError
                    THEN [provider EXCEPT !.notifications =
                              MarkLocal(@, LocalIds(@))]
                    ELSE provider
           /\ last' = Op("markAllAsRead", provider.user, "none",
                         res.error, res.affected, "none")
    /\ UNCHANGED <<users, events, event_participants, now, tabs>>
    /\ UNCHANGED appVars
    /\ UNCHANGED <<subscriptions, pushes, callbacks>>

\* markAllAsRead in its two steps: the store runs the update of the
\* request, and later the handler gets the answer and marks every entry of
\* the list it then has.
MarkAllExecute ==
    /\ provider.user # "none"
    /\ provider.marking < MaxFetches
    /\ LET res == UpdateNotifications(notifications, provider.user,
                                      MarkAllReadRequest(provider.user))
       IN  /\ notifications' = res.tbl
           /\ last' = Op("markAllAsRead", provider.user, "none",
                         res.error, res.affected, "none")
    /\ provider' = [provider EXCEPT !.marking = @ + 1]
    /\ UNCHANGED <<users, events, event_participants, now, tabs>>
    /\ UNCHANGED appVars
    /\ UNCHANGED <<subscriptions, pushes, callbacks>>

MarkAllReturn ==
    /\ provider.marking > 0
    /\ provider' = [provider EXCEPT !.marking = @ - 1,
                                    !.notifications = MarkLocal(@, LocalIds(@))]
    /\ last' = Op("markedAll", provider.user, "none", NoError, 0, "none")
    /\ UNCHANGED <<users, events, event_participants, now, tabs>>
    /\ UNCHANGED appVars
    /\ UNCHANGED <<notifications, subscriptions, pushes, callbacks>>

RestUpdateNotification(uid, notificationId, patch) ==
    /\ LET res == UpdateNotifications(notifications, uid,
                                      EditRequest(notificationId, patch))
       IN  /\ notifications' = res.tbl
           /\ last' = Op("updateNotification", uid, notificationId,
                         res.error, res.affected, "none")
    /\ UNCHANGED <<users, events, event_participants, now, tabs>>
    /\ UNCHANGED appVars
    /\ UNCHANGED <<provider, subscriptions, pushes, callbacks>>

\* ---------------------------------------------------------- specification
\* ---------------------------------------------------------- screen actions
\* The user selects another filter: the effect on [user, filter] calls
\* fetchEvents with it.
setFilter(f) ==
    /\ f # screen.filter
    /\ screen' = [screen EXCEPT !.filter = f, !.inflight = @ \cup {f}]
    /\ last' = Op("setFilter", ScreenUser, f, NoError, 0, "none")
    /\ UNCHANGED <<users, events, event_participants, now, tabs>>
    /\ UNCHANGED channelVars
    /\ UNCHANGED <<authUsers, inits, response, volunteers, profileScreen>>

\* The answer of a fetchEvents request arrives: setEvents with its rows.
setEvents(f) ==
    /\ f \in screen.inflight
    /\ screen' = [screen EXCEPT
                      !.events = [filter |-> f,
                                  rows |-> fetchEvents(ScreenUser, f)],
                      !.inflight = @ \ {f}]
    /\ last' = Op("setEvents", ScreenUser, f, NoError, 0, "none")
    /\ UNCHANGED <<users, events, event_participants, now, tabs>>
    /\ UNCHANGED channelVars
    /\ UNCHANGED <<authUsers, inits, response, volunteers, profileScreen>>

\* --------------------------------------------------------- profile actions
\* handleSave with the form as the user filled it: an update by id when the
\* screen holds a profile with an id, else an insert; on success the screen
\* merges the form into its profile and starts fetchProfile.
handleSave(phone) ==
    /\ profileScreen.fetching < MaxFetches
    /\ LET profileData == [user_id |-> ProfileUser, name |-> ProfileUser,
                           phone |-> phone]
           id == VolunteerId(Cardinality(volunteers) + 1)
           res == IF profileScreen.profile.id # "none"
                    THEN UpdateVolunteers(volunteers, ProfileUser,
                                          profileScreen.profile.id, profileData)
                    ELSE InsertVolunteer(volunteers, ProfileUser,
                                         NewVolunteer(id, ProfileUser, phone))
       IN  /\ volunteers' = res.tbl
           /\ profileScreen' =
                  IF res.error # NoError THEN profileScreen
                  ELSE [profile |-> ApplyPatch(profileScreen.profile,
                                               profileData),
                        fetching |-> profileScreen.fetching + 1]
           /\ last' = Op("handleSave", ProfileUser, "none", res.error,
                         res.affected,
                         IF res.error # NoError THEN "Failed to save profile"
                         ELSE "Profile updated successfully!")
    /\ UNCHANGED <<users, events, event_participants, now, tabs>>
    /\ UNCHANGED channelVars
    /\ UNCHANGED <<authUsers, inits, response, screen>>

\* A fetchProfile request returns: with the row of the user, which becomes
\* the profile of the screen, with no row, or with an error; the last two
\* leave the profile of the screen as it is.
fetchProfile(outcome) ==
    /\ profileScreen.fetching > 0
    /\ LET data == {r \in volunteers :
                       r.user_id = ProfileUser /\ outcome = "data"}
       IN  profileScreen' =
               [profile |-> IF data # {} THEN CHOOSE r \in data : TRUE
                            ELSE profileScreen.profile,
                fetching |-> profileScreen.fetching - 1]
    /\ last' = Op("fetchProfile", ProfileUser, "none",
                  IF outcome = "data" THEN NoError ELSE "fetch", 0, "none")
    /\ UNCHANGED <<users, events, event_participants, now, tabs>>
    /\ UNCHANGED channelVars
    /\ UNCHANGED <<authUsers, inits, response, volunteers, screen>>

RestInsertVolunteer(uid, userId, phone) ==
    /\ LET id == VolunteerId(Cardinality(volunteers) + 1)
           res == InsertVolunteer(volunteers, uid,
                                  NewVolunteer(id, userId, phone))
       IN  /\ volunteers' = res.tbl
           /\ last' = Op("insertVolunteer", uid, userId, res.error,
                         res.affected, "none")
    /\ UNCHANGED <<users, events, event_participants, now, tabs>>
    /\ UNCHANGED channelVars
    /\ UNCHANGED <<authUsers, inits, response, profileScreen, screen>>

\* --------------------------------------------------------- account actions
\* A sign-up: the client hands the auth service an email and metadata.
SignUp(email, role) ==
    LET res == CreateUser(authUsers, users, email, "new", role)
    IN  /\ authUsers' = res.authUsers
        /\ users' = res.users
        /\ last' = Op("signUp", AccountId(email), "none", res.error, 0, "none")
        /\ UNCHANGED <<events, event_participants, now, tabs>>
        /\ UNCHANGED channelVars
        /\ UNCHANGED <<inits, response, volunteers, profileScreen, screen>>

RestUpdateUser(uid, id, patch) ==
    LET res == UpdateUsers(users, uid, id, patch)
    IN  /\ \E a \in authUsers : a.id = uid
        /\ users' = res.users
        /\ last' = Op("updateUser", uid, id, res.error, res.affected, "none")
        /\ UNCHANGED <<events, event_participants, now, tabs>>
        /\ UNCHANGED channelVars
        /\ UNCHANGED appVars

\* ---------------------------------------------------------- server actions
\* GET /init, one request of the server at a time: initializeDatabase finds
\* the users table and goes on to createDemoUsers, which looks the demo
\* account up by its email,
InitCheck(i) ==
    /\ inits[i].pc \in {"idle", "check"}
    /\ LET demo == DemoUsers[inits[i].demo]
           found == Single({u \in users : u.email = demo.email})
       IN  inits' = [inits EXCEPT ![i].pc =
                        IF found.id = "none" THEN "create"
                        ELSE IF inits[i].demo < Len(DemoUsers) THEN "check"
                        ELSE "reply",
                     ![i].demo =
                        IF found.id # "none" /\ @ < Len(DemoUsers)
                          THEN @ + 1 ELSE @]
    /\ last' = Op("/init", i, "none", NoError, 0, "none")
    /\ UNCHANGED <<users, events, event_participants, now, tabs>>
    /\ UNCHANGED channelVars
    /\ UNCHANGED <<authUsers, response, volunteers, profileScreen, screen>>

\* creates the account when it found none,
InitCreate(i) ==
    /\ inits[i].pc = "create"
    /\ LET demo == DemoUsers[inits[i].demo]
           res == CreateUser(authUsers, users, demo.email, demo.name,
                             demo.role)
       IN  /\ authUsers' = res.authUsers
           /\ users' = res.users
           /\ inits' = [inits EXCEPT ![i].pc =
                            IF res.error = NoError THEN "insert"
                            ELSE IF inits[i].demo < Len(DemoUsers)
                              THEN "check"
                            ELSE "reply",
                         ![i].demo =
                            IF res.error # NoError /\ @ < Len(DemoUsers)
                              THEN @ + 1 ELSE @]
           /\ last' = Op("/init", i, "none", res.error, 0, "none")
    /\ UNCHANGED <<events, event_participants, now, tabs>>
    /\ UNCHANGED channelVars
    /\ UNCHANGED <<response, volunteers, profileScreen, screen>>

\* and inserts its users row, without looking at the result.
InitInsert(i) ==
    /\ inits[i].pc = "insert"
    /\ LET demo == DemoUsers[inits[i].demo]
           row == NewUser(AccountId(demo.email), demo.email, demo.name,
                          demo.role)
           res == InsertUser(authUsers, users, row)
       IN  /\ users' = res.users
           /\ last' = Op("/init", i, "none", res.error, res.affected, "none")
    /\ inits' = [inits EXCEPT ![i].pc =
                     IF inits[i].demo < Len(DemoUsers) THEN "check"
                     ELSE "reply",
                  ![i].demo = IF @ < Len(DemoUsers) THEN @ + 1 ELSE @]
    /\ UNCHANGED <<events, event_participants, now, tabs>>
    /\ UNCHANGED channelVars
    /\ UNCHANGED <<authUsers, response, volunteers, profileScreen, screen>>

InitReply(i) ==
    /\ inits[i].pc = "reply"
    /\ inits' = [inits EXCEPT ![i] = [pc |-> "idle", demo |-> 1,
                                      replied |-> TRUE]]
    /\ response' = [op |-> "init", status |-> 200,
                    body |-> [success |-> TRUE]]
    /\ last' = Op("/init", i, "none", NoError, 0, "none")
    /\ UNCHANGED <<users, events, event_participants, now, tabs>>
    /\ UNCHANGED channelVars
    /\ UNCHANGED <<authUsers, volunteers, profileScreen, screen>>

getStats(token) ==
    /\ response' = [op |-> "stats"] @@ Answer(token, StatsPayload)
    /\ last' = Op("stats", token, "none", NoError, 0, "none")
    /\ UNCHANGED <<users, events, event_participants, now, tabs>>
    /\ UNCHANGED channelVars
    /\ UNCHANGED <<authUsers, inits, volunteers, profileScreen, screen>>

getReports(token, type) ==
    /\ LET answer == Answer(token, ReportPayload(type))
       IN  response' =
               IF answer.status = 200 /\ type \notin {"events", "volunteers"}
                 THEN [op |-> "reports", status |-> 400,
                       body |-> [error |-> "Invalid report type"]]
                 ELSE [op |-> "reports"] @@ answer
    /\ last' = Op("reports", token, type, NoError, 0, "none")
    /\ UNCHANGED <<users, events, event_participants, now, tabs>>
    /\ UNCHANGED channelVars
    /\ UNCHANGED <<authUsers, inits, volunteers, profileScreen, screen>>

Next ==
    \/ \E u \in Joiners, e \in EventIds : handleJoinEvent(u, e)
    \/ \E u \in Joiners, e \in EventIds : handleLeaveEvent(u, e)
    \/ \E a \in RestActors, e \in EventIds, v \in Joiners : RestInsert(a, e, v)
    \/ \E a \in RestActors, e \in EventIds, v \in Joiners : RestDelete(a, e, v)
    \/ \E a \in RestActors, e \in EventIds, v \in Joiners, p \in UpdateRequests :
           RestUpdate(a, e, v, p)

Spec == Init /\ [][Next]_vars

\* Reports: the clock advances, volunteers join and leave, the admin records
\* attendance or cancels.
NextReport ==
    \/ Tick
    \/ \E u \in Joiners, e \in EventIds : handleJoinEvent(u, e)
    \/ \E u \in Joiners, e \in EventIds : handleLeaveEvent(u, e)
    \/ \E e \in EventIds, v \in Joiners, p \in ReportUpdateRequests :
           RestUpdate("a1", e, v, p)

SpecReport == Init /\ [][NextReport]_vars

\* Concurrent joins: every tab sends one join request and the store
\* executes the requests in any order.
NextRace ==
    \/ \E t \in Tabs, e \in EventIds : JoinSend(t, e)
    \/ \E t \in Tabs : JoinExecute(t)
    \/ \E t \in Tabs : JoinReturn(t)

SpecRace == Init /\ [][NextRace]_vars

\* The catalog changes: accounts insert, rename and delete events while
\* volunteers join and leave the first two.
NextCatalog ==
    \/ \E a \in RestActors : RestInsertEvent(a)
    \/ \E a \in RestActors, e \in EventIds : RestUpdateEvent(a, e, Rename)
    \/ \E a \in RestActors, e \in EventIds : RestDeleteEvent(a, e)
    \/ \E u \in Joiners, e \in EventIds : handleJoinEvent(u, e)
    \/ \E u \in Joiners, e \in EventIds : handleLeaveEvent(u, e)

SpecCatalog == Init /\ [][NextCatalog]_vars

\* Dashboard statistics: weeks pass while volunteers join and leave.
NextStats ==
    \/ \E d \in ClockSteps : Advance(d)
    \/ \E u \in Joiners, e \in EventIds : handleJoinEvent(u, e)
    \/ \E u \in Joiners, e \in EventIds : handleLeaveEvent(u, e)

SpecStats == Init /\ [][NextStats]_vars

\* The inbox: accounts sign in and out of one browser, the admin sends
\* notifications, the signed-in account marks them read, and accounts send
\* update requests of their own.
NextInbox ==
    \/ \E u \in Accounts : SignIn(u)
    \/ SignOut
    \/ \E u \in Accounts : FetchReturn(u)
    \/ \E a \in RestActors, u \in Accounts : RestInsertNotification(a, u)
    \/ \E n \in LocalIds(provider.notifications) : markAsRead(n)
    \/ markAllAsRead
    \/ \E a \in RestActors, n \in {r.id : r \in notifications},
           p \in NotificationPatches : RestUpdateNotification(a, n, p)

SpecInbox == Init /\ [][NextInbox]_vars

\* Live push: accounts sign in and out, notifications are committed and
\* the realtime service runs the subscription callbacks.
NextPush ==
    \/ \E u \in Accounts : SignIn(u)
    \/ SignOut
    \/ \E u \in Accounts : FetchReturn(u)
    \/ \E u \in Accounts : RestInsertNotification("a1", u)
    \/ addNotification
    \/ \E p \in BagToSet(pushes) : Deliver(p)

SpecPush == Init /\ [][NextPush]_vars

\* ----------------------------------------------------------- properties
\* Seeding: clients call /init on start, people sign up and accounts patch
\* their users row.
NextSeed ==
    \/ \E i \in InitCalls :
           InitCheck(i) \/ InitCreate(i) \/ InitInsert(i) \/ InitReply(i)
    \/ \E email \in SignUpEmails, role \in SignUpRoles : SignUp(email, role)
    \/ \E uid \in {"v1", "s1"}, id \in {"v1", "s1", "a1"},
          patch \in UserPatches : RestUpdateUser(uid, id, patch)

SpecSeed == Init /\ [][NextSeed]_vars

\* The admin endpoints: clients ask for /stats and /reports while people
\* sign up, accounts patch their users row and a volunteer joins events.
NextServer ==
    \/ \E email \in SignUpEmails, role \in SignUpRoles : SignUp(email, role)
    \/ \E uid \in {"v1", "s1"}, id \in {"v1", "s1", "a1"},
          patch \in UserPatches : RestUpdateUser(uid, id, patch)
    \/ \E token \in Tokens : getStats(token)
    \/ \E token \in Tokens, type \in ReportTypes : getReports(token, type)
    \/ \E e \in EventIds : handleJoinEvent("v1", e)

SpecServer == Init /\ [][NextServer]_vars

\* Reading: volunteer v1 is signed in, the admin sends notifications, the
\* subscription delivers them, and v1 marks everything read.
NextRead ==
    \/ SignIn("v1")
    \/ FetchReturn("v1")
    \/ RestInsertNotification("a1", "v1")
    \/ \E p \in BagToSet(pushes) : Deliver(p)
    \/ MarkAllExecute
    \/ MarkAllReturn

SpecRead == Init /\ [][NextRead]_vars

\* The events screen of v1: filter changes, joins and leaves, and the
\* answers of the fetchEvents requests in any order.
NextScreen ==
    \/ \E f \in Filters : setFilter(f)
    \/ \E f \in Filters : setEvents(f)
    \/ \E e \in EventIds : handleJoinEvent(ScreenUser, e)
    \/ \E e \in EventIds : handleLeaveEvent(ScreenUser, e)

SpecScreen == Init /\ [][NextScreen]_vars

\* The profile screen of v1: saves and returning fetches, while another
\* volunteer inserts profile rows over REST.
NextProfile ==
    \/ \E phone \in Phones : handleSave(phone)
    \/ \E outcome \in FetchOutcomes : fetchProfile(outcome)
    \/ \E userId \in Joiners, phone \in Phones :
           RestInsertVolunteer("v2", userId, phone)

SpecProfile == Init /\ [][NextProfile]_vars

PairRows(tbl, eventId, volunteerId) ==
    LET pair(r) == SamePair(r, eventId, volunteerId) IN BagFilter(tbl, pair)

PairCount(tbl, eventId, volunteerId) ==
    BagCardinality(PairRows(tbl, eventId, volunteerId))

OtherRows(tbl, eventId, volunteerId) ==
    LET other(r) == ~ SamePair(r, eventId, volunteerId) IN BagFilter(tbl, other)

Answered(t) == tabs[t].pc \in {"replied", "done"}

\* C1: the table never holds two rows for one (event, volunteer) pair, and
\* of two concurrent join requests of one volunteer for one event exactly
\* one inserts its row and the other is rejected on the uniqueness
\* constraint, in whatever order the store executes them.
C1_UniqueUnderConcurrentJoins ==
    /\ \A e \in EventIds, v \in UserIds :
           PairCount(event_participants, e, v) <= 1
    /\ \A s \in Tabs, t \in Tabs :
           ( /\ s # t
             /\ TabUser(s) = TabUser(t)
             /\ Answered(s) /\ Answered(t)
             /\ tabs[s].event_id = tabs[t].event_id )
           => /\ PairCount(event_participants, tabs[s].event_id, TabUser(s)) = 1
              /\ {tabs[s].error, tabs[t].error} = {NoError, UniqueViolation}
    /\ \A t \in Tabs :
           tabs[t].pc = "done" =>
               (tabs[t].toast = "Failed to join event"
                    <=> tabs[t].error = UniqueViolation)

C1_Witness ==
    /\ tabs["t1"].pc = "done" /\ tabs["t2"].pc = "done"
    /\ tabs["t1"].event_id = tabs["t2"].event_id
    /\ tabs["t2"].toast = "Successfully joined the event!"
    /\ tabs["t1"].toast = "Failed to join event"

\* C2: a join that succeeds raises the participant count of its event by
\* exactly one and leaves the count of every other event alone; a join
\* while a row of the pair is still there fails on the uniqueness
\* constraint and changes no count.
C2_JoinIncrementsCount ==
    [][ \A u \in {last'.uid} \cap Joiners, e \in {last'.event_id} \cap EventIds :
          handleJoinEvent(u, e) =>
            \A viewer \in UserIds, f \in {"all", "upcoming"} :
              \A x \in DOMAIN fetchEvents(viewer, f) :
                LET before == fetchEvents(viewer, f)[x].participant_count
                    after == fetchEvents(viewer, f)'[x].participant_count
                    had == PairCount(event_participants, e, u) > 0
                IN  /\ last'.error = NoError =>
                           after = IF x = e THEN before + 1 ELSE before
                    /\ had => /\ last'.error = UniqueViolation
                              /\ last'.toast = "Failed to join event"
                              /\ after = before ]_vars

C2_Witness ==
    /\ last.op = "handleJoinEvent"
    /\ last.error = NoError
    /\ fetchEvents(last.uid, "all")[last.event_id].participant_count = 2

\* C3: a join fails exactly when a row of the pair that is not cancelled
\* exists; otherwise, a cancelled row included, it succeeds and leaves a
\* row with status joined and hours 0.
C3_JoinFailsIffActiveRow ==
    [][ \A u \in {last'.uid} \cap Joiners, e \in {last'.event_id} \cap EventIds :
          handleJoinEvent(u, e) =>
            LET active == \E r \in BagToSet(event_participants) :
                              SamePair(r, e, u) /\ r.status # "cancelled"
            IN  /\ last'.error # NoError <=> active
                /\ ~ active =>
                     \E r \in BagToSet(event_participants') :
                         /\ SamePair(r, e, u)
                         /\ r.status = "joined" /\ r.hours = 0 ]_vars

\* C4 as stated: a leave with no row of the pair fails and changes
\* nothing; with a row it removes that row and no other; success is
\* reported only when a row was removed.
C4_LeaveNotFound ==
    [][ \A u \in {last'.uid} \cap Joiners, e \in {last'.event_id} \cap EventIds :
          handleLeaveEvent(u, e) =>
            LET had == PairCount(event_participants, e, u) > 0
            IN  /\ ~ had => /\ last'.error # NoError
                            /\ event_participants' = event_participants
                /\ had => event_participants' =
                              OtherRows(event_participants, e, u)
                /\ last'.toast = "Successfully left the event" => had ]_vars

\* C4 amended: a leave with no row of the pair changes nothing and still
\* reports success; with a row it removes that row and no other.
C4_LeaveIsSilentWithoutRow ==
    [][ \A u \in {last'.uid} \cap Joiners, e \in {last'.event_id} \cap EventIds :
          handleLeaveEvent(u, e) =>
            LET had == PairCount(event_participants, e, u) > 0
            IN  /\ last'.error = NoError
                /\ last'.toast = "Successfully left the event"
                /\ ~ had => /\ event_participants' = event_participants
                            /\ last'.affected = 0
                /\ had => /\ event_participants' =
                                OtherRows(event_participants, e, u)
                          /\ last'.affected = 1 ]_vars

C4_Witness ==
    /\ last.op = "handleLeaveEvent"
    /\ last.affected = 0
    /\ last.toast = "Successfully left the event"
    /\ BagCardinality(event_participants) > 0

Changed == event_participants' # event_participants

\* What a step did to the rows of a pair.
Created(e, v) ==
    /\ PairCount(event_participants, e, v) = 0
    /\ PairCount(event_participants', e, v) > 0

Deleted(e, v) ==
    /\ PairCount(event_participants, e, v) > 0
    /\ PairCount(event_participants', e, v) = 0

Updated(e, v) ==
    /\ PairCount(event_participants, e, v) > 0
    /\ PairCount(event_participants', e, v) > 0
    /\ PairRows(event_participants', e, v) # PairRows(event_participants, e, v)

\* C5 as stated: whoever sends the request, a row is created or deleted
\* only by its own volunteer and its status or hours are updated only by
\* an admin.
C5_OnlyOwnerCreatesOrDeletes ==
    [][ \A e \in EventIds, v \in Joiners :
          /\ (Created(e, v) \/ Deleted(e, v)) => last'.uid = v
          /\ Updated(e, v) => IsAdmin(last'.uid) ]_vars

\* C5 amended: a row is created or deleted only by its own volunteer or
\* by an admin, and updated only by an admin; a volunteer never inserts,
\* deletes or updates a row of another volunteer, and an insert for
\* another volunteer is answered with a row level security error.
C5_OwnerOrAdminWrites ==
    [][ /\ \A e \in EventIds, v \in Joiners :
             /\ (Created(e, v) \/ Deleted(e, v)) =>
                    (last'.uid = v \/ IsAdmin(last'.uid))
             /\ Updated(e, v) => IsAdmin(last'.uid)
        /\ \A a \in {last'.uid} \cap UserIds, e \in {last'.event_id} \cap EventIds,
              v \in Joiners :
             (last'.op = "insert" /\ ~ IsAdmin(a) /\ a # v /\ RestInsert(a, e, v))
                 => ~ Changed /\ last'.error = RlsViolation ]_vars

C5_Witness ==
    /\ last.op = "insert"
    /\ last.uid = "a1"
    /\ last.affected = 1
    /\ \E r \in BagToSet(event_participants) :
           r.event_id = last.event_id /\ r.volunteer_id # last.uid

\* C6: a leave that removed the row of a pair, whatever its status and
\* hours were, followed at once by a join of the same pair ends with
\* exactly the state a single join produces: the other rows plus one row
\* of the pair with status joined and hours 0.
C6_RejoinAfterLeave ==
    [][ \A u \in {last'.uid} \cap Joiners, e \in {last'.event_id} \cap EventIds :
          ( /\ last.op = "handleLeaveEvent"
            /\ last.uid = u /\ last.event_id = e
            /\ handleJoinEvent(u, e) )
          => /\ last'.error = NoError
             /\ last'.toast = "Successfully joined the event!"
             /\ event_participants' =
                    OtherRows(event_participants, e, u)
                        (+) SetToBag({NewParticipant(e, u)})
             /\ PairCount(event_participants', e, u) = 1 ]_vars

C6_Witness ==
    /\ last.op = "handleLeaveEvent"
    /\ last.affected = 1
    /\ PairCount(event_participants, last.event_id, last.uid) = 0
    /\ \E r \in BagToSet(event_participants) : r.status = "attended"

JoinedRowExists(eventId, volunteerId) ==
    \E r \in BagToSet(event_participants) :
        SamePair(r, eventId, volunteerId) /\ r.status = "joined"

AttendedRow(eventId, volunteerId, h) ==
    [NewParticipant(eventId, volunteerId) EXCEPT
        !.status = "attended", !.hours = h,
        !.created_at = (CHOOSE r \in BagToSet(event_participants) :
                            SamePair(r, eventId, volunteerId)).created_at]

\* The effect of recording attendance on a joined row: the row becomes
\* attended with the given hours, no other row changes, and the
\* volunteer's total in the volunteer report moves by those hours.
AttendanceRecorded(e, v, h) ==
    /\ event_participants' =
           OtherRows(event_participants, e, v)
               (+) SetToBag({AttendedRow(e, v, h)})
    /\ fetchVolunteerReports'[v].total_hours =
           fetchVolunteerReports[v].total_hours + h

C8_HoursNonNegative ==
    [][ /\ \A r \in BagToSet(event_participants') : r.hours >= 0
        /\ \A a \in {last'.uid} \cap UserIds, e \in {last'.event_id} \cap EventIds,
              v \in Joiners, h \in HourInputs :
             ( /\ last'.op = "update"
               /\ h < 0
               /\ IsAdmin(a) /\ JoinedRowExists(e, v)
               /\ RestUpdate(a, e, v, RecordAttendance(h)) )
             => last'.error # NoError /\ ~ Changed ]_vars

NotCancelledCount(eventId) ==
    LET counted(r) == r.event_id = eventId /\ r.status # "cancelled"
    IN  BagCount(event_participants, counted)

AttendedCount(eventId) ==
    LET counted(r) == r.event_id = eventId /\ r.status = "attended"
    IN  BagCount(event_participants, counted)

\* C9: every participant count reported for an event (event report,
\* events list under each filter and for each viewer, dashboard) is the
\* number of its rows that are not cancelled, and the attended count is
\* the number of its attended rows.
C9_CountsAgree ==
    /\ \A x \in DOMAIN fetchEventReports :
           /\ fetchEventReports[x].participant_count = NotCancelledCount(x)
           /\ fetchEventReports[x].attended_count = AttendedCount(x)
    /\ \A viewer \in UserIds, f \in Filters :
           \A x \in DOMAIN fetchEvents(viewer, f) :
               fetchEvents(viewer, f)[x].participant_count
                   = NotCancelledCount(x)
    /\ \A x \in DOMAIN fetchDashboardData :
           fetchDashboardData[x].participant_count = NotCancelledCount(x)

\* C10: the volunteer report gives, for every volunteer, the number of
\* their rows that are not cancelled, the sum of the hours of all their
\* rows, and the latest creation time among them (empty when there is
\* none).
C10_VolunteerReport ==
    \A v \in DOMAIN fetchVolunteerReports :
        LET mine(r) == r.volunteer_id = v
            counted(r) == r.volunteer_id = v /\ r.status # "cancelled"
            rows == BagFilter(event_participants, mine)
            rep == fetchVolunteerReports[v]
        IN  /\ rep.total_events = BagCount(event_participants, counted)
            /\ rep.total_hours = SumHours(rows)
            /\ rep.last_activity =
                   IF BagCardinality(rows) = 0 THEN <<>>
                   ELSE <<SetMax({r.created_at : r \in BagToSet(rows)})>>

\* C11: the event report holds exactly one record for every event of the
\* catalog, so it has as many records as there are events, however many
\* that is.
C11_OneRecordPerEvent ==
    /\ DOMAIN fetchEventReports = {e.id : e \in events}
    /\ Cardinality(DOMAIN fetchEventReports) = Cardinality(events)
    /\ \A e \in events :
           e.id \in DOMAIN fetchEventReports =>
               /\ fetchEventReports[e.id].title = e.title
               /\ fetchEventReports[e.id].date = e.date
               /\ fetchEventReports[e.id].location = e.location

\* C12: in every report record the attended count is at most the
\* participant count (and the attended rows are among the rows that are
\* not cancelled); the attendance rate is 0 for an event without
\* participants, and otherwise the whole percentage nearest to
\* attended / participants, which lies between 0 and 100.
C12_AttendanceRate ==
    /\ \A x \in DOMAIN fetchEventReports :
           LET a == fetchEventReports[x].attended_count
               p == fetchEventReports[x].participant_count
           IN  /\ a <= p
               /\ AttendedCount(x) <= NotCancelledCount(x)
               /\ p = 0 => AttendanceRate(a, p) = 0
               /\ AttendanceRate(a, p) \in 0..100
    /\ \A p \in 0..MaxParticipants, a \in 0..MaxParticipants :
           a <= p =>
             LET rate == AttendanceRate(a, p)
             IN  /\ rate \in 0..100
                 /\ p = 0 => rate = 0
                 /\ p > 0 => /\ 2 * p * rate <= 200 * a + p
                             /\ 2 * p * rate > 200 * a - p

C12_Witness ==
    \E x \in DOMAIN fetchEventReports, y \in DOMAIN fetchEventReports :
        /\ fetchEventReports[x].participant_count = 2
        /\ fetchEventReports[x].attended_count = 1
        /\ AttendanceRate(1, 2) = 50
        /\ fetchEventReports[y].participant_count = 0
        /\ AttendanceRate(0, 0) = 0

RowsOf(volunteerId) ==
    LET mine(r) == r.volunteer_id = volunteerId
    IN  BagToSet(BagFilter(event_participants, mine))

\* C13: the statistics give the number of volunteer accounts, of events
\* and of participation rows, and count as active every account with a
\* row created at most 30 days ago, once however many such rows it has,
\* and no account whose rows are all older.
C13_DashboardStats ==
    /\ fetchStats.totalVolunteers =
           Cardinality({u \in users : u.role = "volunteer"})
    /\ fetchStats.totalEvents = Cardinality(events)
    /\ fetchStats.totalParticipations = BagCardinality(event_participants)
    /\ \E active \in SUBSET UserIds :
           /\ fetchStats.activeVolunteers = Cardinality(active)
           /\ \A v \in UserIds :
                  v \in active <=>
                      \E r \in RowsOf(v) : now - r.created_at <= ActiveWindowDays

C13_Witness ==
    /\ Cardinality(RowsOf("v1")) = 2
    /\ \A r \in RowsOf("v1") : now - r.created_at <= ActiveWindowDays
    /\ RowsOf("v2") # {}
    /\ \A r \in RowsOf("v2") : now - r.created_at > ActiveWindowDays
    /\ fetchStats.activeVolunteers = 1
    /\ fetchStats.totalParticipations = 3

RowsOfEvent(tbl, eventId) ==
    LET ofEvent(r) == r.event_id = eventId IN BagFilter(tbl, ofEvent)

RowsOfOtherEvents(tbl, eventId) ==
    LET other(r) == r.event_id # eventId IN BagFilter(tbl, other)

\* C14: a delete that removes an event removes the participation rows of
\* that event in the same step and no row of another event; afterwards
\* the event is in no events list (under any filter, for any viewer), no
\* report and no dashboard, and in every state each participation row
\* refers to an event of the catalog.
C14_DeleteCascades ==
    [][ /\ \A r \in BagToSet(event_participants') :
               \E e \in events' : e.id = r.event_id
        /\ \A a \in {last'.uid} \cap UserIds, e \in {last'.event_id} \cap EventIds :
             ( /\ last'.op = "deleteEvent"
               /\ last'.affected = 1
               /\ RestDeleteEvent(a, e) )
             => /\ RowsOfEvent(event_participants', e) = EmptyBag
                /\ RowsOfOtherEvents(event_participants', e)
                       = RowsOfOtherEvents(event_participants, e)
                /\ \A v \in UserIds, f \in Filters :
                       e \notin DOMAIN fetchEvents(v, f)'
                /\ e \notin DOMAIN fetchEventReports'
                /\ e \notin DOMAIN fetchDashboardData' ]_vars

C14_Witness ==
    /\ last.op = "deleteEvent"
    /\ last.affected = 1
    /\ last.event_id \notin {e.id : e \in events}
    /\ BagCardinality(event_participants) = 2
    /\ \A r \in BagToSet(event_participants) : r.event_id # last.event_id

EventIdsOf(evts) == {e.id : e \in evts}

EventCreated(id) == id \notin EventIdsOf(events) /\ id \in EventIdsOf(events')

EventDeleted(id) == id \in EventIdsOf(events) /\ id \notin EventIdsOf(events')

EventUpdated(id) ==
    /\ id \in EventIdsOf(events) /\ id \in EventIdsOf(events')
    /\ {e \in events' : e.id = id} # {e \in events : e.id = id}

MayWriteEvent(uid, id) ==
    IsAdmin(uid) \/ \E e \in events : e.id = id /\ e.created_by = uid

CatalogWrite == last'.op \in {"insertEvent", "updateEvent", "deleteEvent"}

\* C15 as stated: an event is created only by an admin and updated or
\* deleted only by its creator or an admin; every other attempt is
\* answered with an error and leaves the catalog as it was.
C15_EventWritesForbidden ==
    [][ /\ \A id \in EventIdsOf(events) \cup EventIdsOf(events') :
             /\ EventCreated(id) => IsAdmin(last'.uid)
             /\ (EventUpdated(id) \/ EventDeleted(id)) =>
                    MayWriteEvent(last'.uid, id)
        /\ (CatalogWrite /\ ~ MayWriteEvent(last'.uid, last'.event_id)) =>
               /\ last'.error # NoError
               /\ events' = events ]_vars

\* C15 amended: an event is created only by an admin and updated or
\* deleted only by its creator or an admin; an insert by anyone else is
\* answered with a row level security error, an update or delete by
\* anyone else is answered without an error and touches no row; either
\* way the catalog and the participation rows stay as they were.
C15_EventWritesGuarded ==
    [][ /\ \A id \in EventIdsOf(events) \cup EventIdsOf(events') :
             /\ EventCreated(id) => IsAdmin(last'.uid)
             /\ (EventUpdated(id) \/ EventDeleted(id)) =>
                    MayWriteEvent(last'.uid, id)
        /\ (CatalogWrite /\ ~ MayWriteEvent(last'.uid, last'.event_id)) =>
               /\ events' = events
               /\ event_participants' = event_participants
               /\ last'.affected = 0
               /\ last'.error = IF last'.op = "insertEvent" THEN RlsViolation
                                 ELSE NoError ]_vars

C15_Witness ==
    /\ last.op = "deleteEvent"
    /\ last.uid = "v1"
    /\ last.error = NoError /\ last.affected = 0
    /\ last.event_id \in EventIdsOf(events)
    /\ Cardinality(CreatedEvents) > 0

\* C16: under the 'joined' filter a volunteer who holds participation
\* rows is shown exactly the events they hold a row with status joined or
\* attended for.
C16_ListJoinedBy ==
    \A v \in Joiners :
        (\E r \in RowsOf(v) : TRUE) =>
            DOMAIN fetchEvents(v, "joined") =
                {r.event_id : r \in {x \in RowsOf(v) :
                                        x.status \in {"joined", "attended"}}}

StoredNotification(id) == CHOOSE r \in notifications : r.id = id

\* C17 as stated: marking a notification read as an account that is not
\* its recipient is answered with an error and changes neither the stored
\* row nor the list the provider keeps; as the recipient it sets the read
\* flag, and the same call repeated changes nothing further.
C17_MarkReadForbidden ==
    [][ \A n \in {last'.event_id} \cap LocalIds(provider.notifications) :
          (last'.op = "markAsRead" /\ markAsRead(n)) =>
            LET row == StoredNotification(n)
                actor == provider.user
            IN  /\ row.user_id # actor =>
                       /\ last'.error # NoError
                       /\ notifications' = notifications
                       /\ provider'.notifications = provider.notifications
                /\ row.user_id = actor =>
                       /\ \E r \in notifications' : r.id = n /\ r.read_status
                       /\ (last.op = "markAsRead" /\ last.event_id = n
                               /\ last.uid = actor) =>
                              /\ notifications' = notifications
                              /\ provider' = provider ]_vars

\* C18: once a notification is stored, no step changes its recipient,
\* message, type or creation time; its read flag only goes from false to
\* true, and only in a step of its recipient.
C18_ContentImmutable ==
    [][ \A r \in notifications :
          \E q \in notifications' :
              /\ q.id = r.id /\ q.user_id = r.user_id
              /\ q.message = r.message /\ q.type = r.type
              /\ q.created_at = r.created_at
              /\ r.read_status => q.read_status
              /\ q.read_status # r.read_status => last'.uid = r.user_id ]_vars

\* C19: the subscription callback of the browser runs at most once for a
\* committed notification, and a subscription is handed only records of
\* the recipient it is scoped to.
C19_DeliveredOnce ==
    /\ \A r \in notifications : CopiesIn(r.id, callbacks) <= 1
    /\ \A p \in BagToSet(pushes) : p.new.user_id = p.to

\* C20: at most one subscription is live, and it is scoped to the user
\* that is signed in.
C20_SingleSubscription ==
    /\ BagCardinality(subscriptions) <= 1
    /\ \A u \in BagToSet(subscriptions) : u = provider.user

WriteHandlers ==
    {"handleJoinEvent", "handleLeaveEvent", "addNotification", "markAsRead",
     "markAllAsRead"}

\* C21: a write handler whose request the store answered with an error
\* shows its caller a failure.
C21_WriteFailuresSurface ==
    [][ (last'.op \in WriteHandlers /\ last'.error # NoError) =>
            last'.toast \notin {"none", "Successfully joined the event!",
                                "Successfully left the event"} ]_vars

ServerReads == {"stats", "reports"}

\* C22: /stats and /reports answer with data only for a token of an
\* account whose users row has role admin; no or an unknown token gets
\* 401, an account that is no admin gets 403, both with an error body.
C22_AdminOnlyPayload ==
    [][ last'.op \in ServerReads =>
            LET resolved == \E a \in authUsers : a.id = last'.uid
                admin == \E u \in users :
                             u.id = last'.uid /\ u.role = "admin"
            IN  /\ ~ resolved => response'.status = 401
                /\ (resolved /\ ~ admin) => response'.status = 403
                /\ ~ (resolved /\ admin) =>
                       DOMAIN response'.body = {"error"}
                /\ response'.status = 200 => (resolved /\ admin) ]_vars

\* a volunteer with a participation asked for a report and got 403
C22_Witness ==
    /\ last.op = "reports"
    /\ last.uid = "v1"
    /\ response.status = 403
    /\ BagCardinality(event_participants) > 0

DemoRows ==
    {NewUser(AccountId(DemoUsers[k].email), DemoUsers[k].email,
             DemoUsers[k].name, DemoUsers[k].role) : k \in DOMAIN DemoUsers}

DemoEmails == {DemoUsers[k].email : k \in DOMAIN DemoUsers}

\* C23: a step of /init adds nothing but demo rows and alters no row; once
\* an invocation has answered, the demo emails have exactly their one row
\* each, and further invocations leave the accounts as they are.
C23_InitIdempotent ==
    [][ last'.op = "/init" =>
            /\ users \subseteq users'
            /\ (users' \ users) \subseteq DemoRows
            /\ (\E i \in InitCalls : inits[i].replied) =>
                   (users' = users /\ authUsers' = authUsers)
            /\ (\E i \in InitCalls : inits'[i].replied) =>
                   {u \in users' : u.email \in DemoEmails} = DemoRows
            /\ \A e \in DemoEmails :
                   Cardinality({a \in authUsers' : a.email = e}) <= 1 ]_vars

\* two invocations interleaved: one has answered while the other, which
\* created a demo account itself, is before its insert
C23_Witness ==
    /\ inits["i1"].replied
    /\ inits["i2"].pc = "insert"

AccountWrites == {"signUp", "updateUser"}

\* C24: an account has one role, and what its owner does (signing up with
\* metadata, patching the own users row) never makes it an admin: a sign-up
\* creates a volunteer and the own row keeps its role and email.
C24_NoSelfPromotion ==
    [][ last'.op \in AccountWrites =>
            /\ \A n \in users' : n.role \in Roles
            /\ \A n \in users' \ users :
                   \/ n.role = "volunteer"
                   \/ \E u \in users : u.id = n.id /\ u.role = n.role ]_vars

\* C25: a save of an account that has a profile row succeeds and updates
\* that row; no second row is inserted or attempted.
C25_SaveUpdatesExisting ==
    [][ ( /\ last'.op = "handleSave"
          /\ \E r \in volunteers : r.user_id = last'.uid ) =>
            /\ last'.error = NoError
            /\ last'.toast = "Profile updated successfully!"
            /\ {r.id : r \in volunteers'} = {r.id : r \in volunteers} ]_vars

\* C26: the list of the provider never holds two entries with one id.
C26_NoDuplicateEntries ==
    \A i, j \in DOMAIN provider.notifications :
        provider.notifications[i].id = provider.notifications[j].id => i = j

Quiescent ==
    /\ provider.fetching = {}
    /\ provider.marking = 0
    /\ pushes = EmptyBag

\* C27: with no request and no push under way, every entry of the list
\* has the read flag its row has in the store.
C27_ReadFlagsAgree ==
    Quiescent =>
        \A i \in DOMAIN provider.notifications :
            \A r \in notifications :
                r.id = provider.notifications[i].id =>
                    r.read_status = provider.notifications[i].read_status

\* C28: every entry of the list is a notification of the account that is
\* signed in; with nobody signed in the list is empty.
C28_OnlyOwnEntries ==
    \A i \in DOMAIN provider.notifications :
        provider.notifications[i].user_id = provider.user

\* C29: on a list loaded in the state of the click, Join is offered for
\* an event exactly when the user has no participation row for it, so a
\* click on an offered Join is not answered with a uniqueness error.
C29_JoinOfferedIffNoRow ==
    [][ ( /\ last'.op = "handleJoinEvent"
          /\ last'.event_id \in DOMAIN fetchEvents(last'.uid, "all")
          /\ ~ fetchEvents(last'.uid, "all")[last'.event_id].is_joined ) =>
            /\ PairCount(event_participants, last'.event_id, last'.uid) = 0
            /\ last'.error # UniqueViolation ]_vars

\* C30: when no fetchEvents request is under way, the list on the screen
\* is the answer for the filter that is selected.
C30_ListMatchesFilter ==
    screen.inflight = {} =>
        /\ screen.events.filter = screen.filter
        /\ screen.events.rows = fetchEvents(ScreenUser, screen.filter)

====
